---- MODULE Spec2Model ----
(***************************************************************************)
(* Model of the VR amblyoscope (src/src/main.ts): the per-eye layer masks, *)
(* the XR session state handler, the visibility/parenting overrides, the   *)
(* per-camera visibility hook, the Eye Plane States and the controls that  *)
(* mutate them.                                                            *)
(*                                                                         *)
(* Numbers are JavaScript numbers: IEEE-754 binary64 with round-to-nearest *)
(* ties-to-even.  A number is a record [neg, man, exp] standing for        *)
(* (-1)^neg * man * 2^exp, where man is a natural number of exactly Prec   *)
(* bits held as a little-endian sequence of limbs in base Base, or the     *)
(* empty sequence for zero.  The values of the program stay far from the   *)
(* exponent limits, so overflow, subnormals, NaN and the sign of zero are  *)
(* not represented.                                                        *)
(***************************************************************************)
EXTENDS Integers, Sequences, FiniteSets, TLC

\* F applied to v: names the value v inside F
Let(v, F(_)) == F(v)

\* ---------------------------------------------------------------------
\* Natural numbers of arbitrary size (little-endian limbs, no high zeros)
\* ---------------------------------------------------------------------
Prec == 53
LimbBits == 15
Base == 2^LimbBits

RECURSIVE BStrip(_)
BStrip(a) ==
  IF a = <<>> THEN <<>>
  ELSE IF a[Len(a)] = 0 THEN BStrip(SubSeq(a, 1, Len(a) - 1)) ELSE a

RECURSIVE BFromNat(_)
BFromNat(n) == IF n = 0 THEN <<>> ELSE <<n % Base>> \o BFromNat(n \div Base)

BLimb(a, i) == IF i >= 1 /\ i <= Len(a) THEN a[i] ELSE 0

BMaxLen(a, b) == IF Len(a) >= Len(b) THEN Len(a) ELSE Len(b)

RECURSIVE BAddFrom(_, _, _, _)
BAddFrom(a, b, i, carry) ==
  IF i > BMaxLen(a, b)
  THEN IF carry = 0 THEN <<>> ELSE <<carry>>
  ELSE LET s == BLimb(a, i) + BLimb(b, i) + carry
       IN  <<s % Base>> \o BAddFrom(a, b, i + 1, s \div Base)

BAdd(a, b) == BAddFrom(a, b, 1, 0)

\* a - b for a >= b
RECURSIVE BSubFrom(_, _, _, _)
BSubFrom(a, b, i, borrow) ==
  IF i > Len(a) THEN <<>>
  ELSE LET d == a[i] - BLimb(b, i) - borrow
       IN  IF d < 0 THEN <<d + Base>> \o BSubFrom(a, b, i + 1, 1)
                    ELSE <<d>> \o BSubFrom(a, b, i + 1, 0)

BSub(a, b) == BStrip(BSubFrom(a, b, 1, 0))

\* -1, 0, 1 as a < b, a = b, a > b
RECURSIVE BCmpFrom(_, _, _)
BCmpFrom(a, b, i) ==
  IF i = 0 THEN 0
  ELSE IF a[i] > b[i] THEN 1
  ELSE IF a[i] < b[i] THEN -1
  ELSE BCmpFrom(a, b, i - 1)

BCmp(a, b) ==
  IF Len(a) > Len(b) THEN 1
  ELSE IF Len(a) < Len(b) THEN -1
  ELSE BCmpFrom(a, b, Len(a))

\* a * k for 0 <= k < Base
RECURSIVE BMulSmallFrom(_, _, _, _)
BMulSmallFrom(a, k, i, carry) ==
  IF i > Len(a)
  THEN IF carry = 0 THEN <<>> ELSE <<carry>>
  ELSE LET p == a[i] * k + carry
       IN  <<p % Base>> \o BMulSmallFrom(a, k, i + 1, p \div Base)

BMulSmall(a, k) == IF k = 0 THEN <<>> ELSE BMulSmallFrom(a, k, 1, 0)

BShiftLimbs(a, n) == IF a = <<>> THEN <<>> ELSE [i \in 1..n |-> 0] \o a

RECURSIVE BMulFrom(_, _, _)
BMulFrom(a, b, i) ==
  IF i > Len(a) THEN <<>>
  ELSE BAdd(BShiftLimbs(BMulSmall(b, a[i]), i - 1), BMulFrom(a, b, i + 1))

BMul(a, b) == BMulFrom(a, b, 1)

\* a * 2^s
BShl(a, s) == BShiftLimbs(BMulSmall(a, 2^(s % LimbBits)), s \div LimbBits)

\* floor(a / 2^s)
BShr(a, s) ==
  LET ls == s \div LimbBits
      bs == s % LimbBits
      lo == 2^bs
      hi == 2^(LimbBits - bs)
  IN  IF Len(a) <= ls THEN <<>>
      ELSE BStrip([i \in 1..(Len(a) - ls) |->
                     (a[i + ls] \div lo) + (BLimb(a, i + ls + 1) % lo) * hi])

RECURSIVE SmallBitLen(_)
SmallBitLen(n) == IF n = 0 THEN 0 ELSE 1 + SmallBitLen(n \div 2)

BBitLen(a) == IF a = <<>> THEN 0 ELSE LimbBits * (Len(a) - 1) + SmallBitLen(a[Len(a)])

BIsOdd(a) == a # <<>> /\ a[1] % 2 = 1

\* <<q, r - q * b>> for the largest q with q * b <= r, starting from an
\* estimate q that is not too small; p = q * b
RECURSIVE BFixDigit(_, _, _, _)
BFixDigit(r, b, q, p) ==
  IF BCmp(p, r) > 0 THEN BFixDigit(r, b, q - 1, BSub(p, b)) ELSE <<q, BSub(r, p)>>

\* <<floor(r / b), r mod b>> for r < b * Base and b[Len(b)] >= Base / 2
BDigit(r, b) ==
  IF BCmp(r, b) < 0 THEN <<0, r>>
  ELSE Let((BLimb(r, Len(b) + 1) * Base + BLimb(r, Len(b))) \div b[Len(b)],
           LAMBDA est :
             Let(IF est >= Base THEN Base - 1 ELSE est,
                 LAMBDA q : BFixDigit(r, b, q, BMulSmall(b, q))))

\* long division of the limbs a[1..i] behind the remainder r
RECURSIVE BLongDiv(_, _, _, _, _)
BLongDiv(a, b, i, r, q) ==
  IF i = 0 THEN <<BStrip(q), r>>
  ELSE Let(BDigit(BStrip(<<a[i]>> \o r), b),
           LAMBDA d : BLongDiv(a, b, i - 1, d[2], <<d[1]>> \o q))

\* <<floor(a / b), a mod b>> for b # 0
BDivMod(a, b) ==
  Let(LimbBits * Len(b) - BBitLen(b), LAMBDA s :
  Let(BShl(a, s), LAMBDA n :
  Let(BLongDiv(n, BShl(b, s), Len(n), <<>>, <<>>), LAMBDA r :
    <<r[1], BShr(r[2], s)>>)))

RECURSIVE BFromDigits(_, _)
BFromDigits(ds, acc) ==
  IF ds = <<>> THEN acc
  ELSE BFromDigits(Tail(ds), BAdd(BMulSmall(acc, 10), BFromNat(Head(ds))))

\* ---------------------------------------------------------------------
\* binary64 arithmetic
\* ---------------------------------------------------------------------
FZero == [neg |-> FALSE, man |-> <<>>, exp |-> 0]

\* the number nearest to (-1)^neg * (m + sticky) * 2^e, where sticky
\* stands for a nonzero part below the last bit of m
FRound(neg, m, e, sticky) ==
  IF m = <<>> THEN FZero
  ELSE Let(BBitLen(m) - Prec, LAMBDA s :
    IF s <= 0
    THEN [neg |-> neg, man |-> BShl(m, -s), exp |-> e + s]
    ELSE Let(BShr(m, s), LAMBDA q :
         Let(BCmp(BSub(m, BShl(q, s)), BShl(<<1>>, s - 1)), LAMBDA c :
         Let(IF c > 0 \/ (c = 0 /\ (sticky \/ BIsOdd(q))) THEN BAdd(q, <<1>>) ELSE q,
             LAMBDA q2 :
               IF BBitLen(q2) > Prec
               THEN [neg |-> neg, man |-> BShr(q2, 1), exp |-> e + s + 1]
               ELSE [neg |-> neg, man |-> q2, exp |-> e + s]))))

FBig(neg, m) == FRound(neg, m, 0, FALSE)

\* the integer n, |n| < 2^31
FInt(n) ==
  IF n = 0 THEN FZero
  ELSE Let(IF n < 0 THEN -n ELSE n, LAMBDA k :
         [neg |-> n < 0,
          man |-> BShl(BFromNat(k), Prec - SmallBitLen(k)),
          exp |-> SmallBitLen(k) - Prec])

FNeg(a) == IF a.man = <<>> THEN a ELSE [a EXCEPT !.neg = ~a.neg]
FAbs(a) == [a EXCEPT !.neg = FALSE]

FMul(a, b) ==
  IF a.man = <<>> \/ b.man = <<>> THEN FZero
  ELSE FRound(a.neg # b.neg, BMul(a.man, b.man), a.exp + b.exp, FALSE)

\* b # 0
FDiv(a, b) ==
  IF a.man = <<>> THEN FZero
  ELSE Let(BDivMod(BShl(a.man, Prec + 3), b.man), LAMBDA qr :
         FRound(a.neg # b.neg, qr[1], a.exp - b.exp - (Prec + 3), qr[2] # <<>>))

FAdd(a, b) ==
  IF a.man = <<>> THEN b
  ELSE IF b.man = <<>> THEN a
  ELSE Let(IF a.exp <= b.exp THEN a.exp ELSE b.exp, LAMBDA e :
       Let(BShl(a.man, a.exp - e), LAMBDA ma :
       Let(BShl(b.man, b.exp - e), LAMBDA mb :
       Let(BCmp(ma, mb), LAMBDA c :
         FRound(IF a.neg = b.neg \/ c > 0 THEN a.neg ELSE b.neg,
                IF a.neg = b.neg THEN BAdd(ma, mb)
                ELSE IF c >= 0 THEN BSub(ma, mb) ELSE BSub(mb, ma),
                e, FALSE)))))

FSub(a, b) == FAdd(a, FNeg(b))

\* -1, 0, 1 as |a| < |b|, |a| = |b|, |a| > |b|
FCmpAbs(a, b) ==
  IF a.man = <<>> THEN (IF b.man = <<>> THEN 0 ELSE -1)
  ELSE IF b.man = <<>> THEN 1
  ELSE IF a.exp > b.exp THEN 1
  ELSE IF a.exp < b.exp THEN -1
  ELSE BCmp(a.man, b.man)

\* a < b
FLess(a, b) ==
  IF a.neg /\ ~b.neg THEN a.man # <<>> \/ b.man # <<>>
  ELSE IF ~a.neg /\ b.neg THEN FALSE
  ELSE IF a.neg THEN FCmpAbs(a, b) > 0
  ELSE FCmpAbs(a, b) < 0

\* the number a decimal literal with the digits ds before and nfrac digits
\* after the point denotes
RECURSIVE BPow10(_)
BPow10(n) == IF n = 0 THEN <<1>> ELSE BMulSmall(BPow10(n - 1), 10)

FDec(ds, nfrac) == FDiv(FBig(FALSE, BFromDigits(ds, <<>>)), FBig(FALSE, BPow10(nfrac)))

BToNat(a) == IF a = <<>> THEN 0 ELSE a[1] + Base * BLimb(a, 2)

\* Number.prototype.toFixed(digits): the sign and the integer n for which
\* n / 10^digits is nearest to |x|, the larger n on a tie
ToFixed(x, digits) ==
  IF x.man = <<>> THEN [neg |-> FALSE, n |-> 0]
  ELSE Let(BMul(x.man, BPow10(digits)), LAMBDA num :
       Let(IF x.exp < 0 THEN -x.exp ELSE 0, LAMBDA sh :
       Let(IF x.exp < 0 THEN BShr(num, sh) ELSE BShl(num, x.exp), LAMBDA q :
         [neg |-> x.neg,
          n   |-> BToNat(IF sh > 0 /\ BCmp(BMulSmall(BSub(num, BShl(q, sh)), 2),
                                           BShl(<<1>>, sh)) >= 0
                         THEN BAdd(q, <<1>>) ELSE q)])))

\* ---------------------------------------------------------------------
\* 32-bit layer masks
\* ---------------------------------------------------------------------
\* variant: only the lowest bit of each operand is compared
BitAndLowest(a, b) == (a % 2) * (b % 2)

RECURSIVE BitAnd(_, _)
BitAnd(a, b) ==
  IF a = 0 \/ b = 0 THEN 0
  ELSE (a % 2) * (b % 2) + 2 * BitAnd(a \div 2, b \div 2)

RECURSIVE BitOr(_, _)
BitOr(a, b) ==
  IF a = 0 THEN b
  ELSE IF b = 0 THEN a
  ELSE (IF a % 2 = 1 \/ b % 2 = 1 THEN 1 ELSE 0) + 2 * BitOr(a \div 2, b \div 2)

leftMask == 268435456     \* 0x10000000
rightMask == 536870912    \* 0x20000000
commonMask == 268435455   \* 0x0fffffff

\* layerMask of a camera the program has not assigned one to
cameraDefaultMask == 268435455

\* ---------------------------------------------------------------------
\* Eye Plane State and unit conversions
\* ---------------------------------------------------------------------
Vec(x, y, z) == [x |-> x, y |-> y, z |-> z]

defaultLeft ==
  [position |-> Vec(FInt(0), FInt(0), FInt(2)),
   rotation |-> Vec(FInt(0), FInt(0), FInt(0))]

defaultRight ==
  [position |-> Vec(FInt(0), FInt(0), FInt(2)),
   rotation |-> Vec(FInt(0), FInt(0), FInt(0))]

\* Math.PI = 0x1.921fb54442d18p+1 = 7074237752028440 * 2^-51
MathPI == [neg |-> FALSE, man |-> <<11544, 10376, 2029, 201>>, exp |-> -51]

toRadians(deg) == FDiv(FMul(deg, MathPI), FInt(180))
toDegrees(rad) == FDiv(FMul(rad, FInt(180)), MathPI)

viewingDistance == FInt(2)

metersToDiopters(m) == FDiv(FMul(m, FInt(100)), viewingDistance)
dioptersToMeters(d) == FDiv(FMul(d, viewingDistance), FInt(100))

cloneState(state) ==
  [position |-> Vec(state.position.x, state.position.y, state.position.z),
   rotation |-> Vec(state.rotation.x, state.rotation.y, state.rotation.z)]

DefaultOf(eye) == IF eye = "left" THEN defaultLeft ELSE defaultRight

\* variant: only the position is copied to the mesh
applyStatePositionOnly(mesh, state) ==
  [mesh EXCEPT !.position = Vec(state.position.x, state.position.y, state.position.z)]

applyState(mesh, state) ==
  [mesh EXCEPT !.position = Vec(state.position.x, state.position.y, state.position.z),
               !.rotation = Vec(state.rotation.x, state.rotation.y, state.rotation.z)]

\* ---------------------------------------------------------------------
\* Bounds and sampled inputs
\* ---------------------------------------------------------------------
MaxRigCameras == 2      \* rig cameras a session camera may expose
StartNow == 1000        \* performance.now() when the module has run, ms
MaxNow == 240           \* time the clock is followed from then on, ms
InputMaxNow == 180      \* the same while all controller reports are sampled

Eyes == {"left", "right"}
EyeFlags == {"left", "right", "none"}        \* isLeftCamera / isRightCamera
DeltaTimes == {60, 120}                      \* engine.getDeltaTime(), ms
SliderHalfSteps == {3, 69}                    \* slider positions, in steps of 0.5
Controllers == {"ctlLeft", "ctlLeftHand", "ctlRight", "ctlNone"}
Handedness(c) ==
  IF c \in {"ctlLeft", "ctlLeftHand"} THEN "left"
  ELSE IF c = "ctlRight" THEN "right" ELSE "none"

Button(pressed, value) == [pressed |-> pressed, value |-> value]

\* what a controller reports when it is polled
InputIdle ==
  [hasMotion |-> TRUE, pressed |-> {}, hasGamepad |-> TRUE,
   axes |-> <<FInt(0), FInt(0), FInt(0), FInt(0)>>, buttons |-> <<>>]
InputStick ==
  [hasMotion |-> TRUE, pressed |-> {}, hasGamepad |-> TRUE,
   axes |-> <<FInt(0), FInt(0), FInt(1), FDiv(FInt(-1), FInt(2))>>,
   buttons |-> <<>>]
\* a stick with two axes, pushed a quarter of the way to the right
InputStickSlight ==
  [hasMotion |-> TRUE, pressed |-> {}, hasGamepad |-> TRUE,
   axes |-> <<FDiv(FInt(1), FInt(4)), FInt(0)>>, buttons |-> <<>>]
\* a stick resting on the edge of the dead zone
InputStickResting ==
  [hasMotion |-> TRUE, pressed |-> {}, hasGamepad |-> TRUE,
   axes |-> <<FDec(<<5>>, 2), FNeg(FDec(<<5>>, 2))>>, buttons |-> <<>>]
InputRotate(component) ==
  [hasMotion |-> TRUE, pressed |-> {component}, hasGamepad |-> TRUE,
   axes |-> <<FInt(0), FInt(0)>>,
   buttons |-> <<Button(FALSE, FInt(0))>>]
\* the component is held together with the trigger, gamepad button 0
InputRotateWithTrigger(component) ==
  [hasMotion |-> TRUE, pressed |-> {component}, hasGamepad |-> TRUE,
   axes |-> <<FInt(0), FInt(0)>>,
   buttons |-> <<Button(TRUE, FInt(1))>>]
ControllerInputs(hand) ==
  IF hand = "left"
  THEN {InputIdle, InputStick, InputStickSlight, InputStickResting,
        InputRotate("y-button"), InputRotateWithTrigger("x-button")}
  ELSE {InputIdle, InputStick, InputRotate("a-button")}

\* ---------------------------------------------------------------------
\* Cameras
\* ---------------------------------------------------------------------
NoCamera == <<"none", 0>>
camera == <<"camera", 0>>
leftPreviewCamera == <<"leftPreview", 0>>
rightPreviewCamera == <<"rightPreview", 0>>
sessionCamera == <<"xrCamera", 0>>           \* xrHelper.baseExperience.camera
RigCamera(i) == <<"rig", i>>
AllCameras ==
  {camera, leftPreviewCamera, rightPreviewCamera, sessionCamera}
    \cup {RigCamera(i) : i \in 1..MaxRigCameras}

NoObserver == 0
NewObserver(obs) == CHOOSE o \in 1..(Cardinality(obs) + 1) : o \notin obs

VARIABLES
  xrState,              \* xrHelper.baseExperience.state
  rigCameras,           \* eye flag of each rig camera of the session camera
  cameraLayerMask,      \* layerMask of every camera
  xrCamera, inXrSession, beforeCameraObserver, xrRigCameras,
  lastControlSyncMs, showHudInVR, controllerMap,
  observers,            \* scene.onBeforeCameraRenderObservable
  imageState,           \* leftState, rightState
  plane,                \* leftPlane, rightPlane
  hudPlane, hudText,
  material,             \* leftMaterial, rightMaterial
  previewEnabled, activeCameras, status,
  sliders,              \* the range inputs and their value labels
  connected,            \* controllers the XR input currently holds
  now,                  \* performance.now()
  frame,                \* cameras scene.render() has still to render
  lastRender,           \* the latest camera render and what it drew
  entryState,           \* Eye Plane States when the session was entered
  sessionOps,           \* kinds of operation that acted in this session
  sessionActive,        \* attachXRButtons: let sessionActive
  buttonDisabled,       \* enterButton.disabled, exitButton.disabled
  request,              \* the enterXRAsync / exitXRAsync promise still unsettled
  requestState,         \* what the program looked like when it was requested
  support,              \* the isSessionSupportedAsync promise
  defaultState,         \* the objects defaultLeft, defaultRight
  alias                 \* whether a state's position / rotation object is its default's

vars ==
  <<xrState, rigCameras, cameraLayerMask, xrCamera, inXrSession,
    beforeCameraObserver, xrRigCameras, lastControlSyncMs, showHudInVR,
    controllerMap, observers, imageState, plane, hudPlane, hudText, material,
    previewEnabled, activeCameras, status, sliders, connected, now, frame,
    lastRender, entryState, sessionOps, sessionActive, buttonDisabled,
    request, requestState, support, defaultState, alias>>

xrButtonVars == <<sessionActive, buttonDisabled, request, requestState, support>>

leftState == imageState["left"]
rightState == imageState["right"]
leftPlane == plane["left"]
rightPlane == plane["right"]
leftMaterial == material["left"]
rightMaterial == material["right"]

NoRender == [camera |-> NoCamera, hooked |-> FALSE, meshes |-> {}]
NoEntry == [left |-> defaultLeft, right |-> defaultRight]
NoRequest == [xrState |-> "none"]

\* ---------------------------------------------------------------------
\* Controls: createRangeControl / buildControls
\* ---------------------------------------------------------------------
Shown(next) == [value |-> next, label |-> ToFixed(next, 2)]

\* the onChange callback of each range control
OnChange(state, control, next) ==
  IF control = "h" THEN [state EXCEPT !.position.x = dioptersToMeters(next)]
  ELSE IF control = "v" THEN [state EXCEPT !.position.y = dioptersToMeters(next)]
  ELSE [state EXCEPT !.rotation.z = toRadians(next)]

getInitial(state, control) ==
  IF control = "h" THEN metersToDiopters(state.position.x)
  ELSE IF control = "v" THEN metersToDiopters(state.position.y)
  ELSE toDegrees(state.rotation.z)

\* the controls array of a panel, in order
PanelControls == <<"h", "v", "rot">>

\* control.setValue(next); c is the panel's state, what its controls show
\* and the states the panel's onChange callback has been handed so far
setValue(c, control, next) ==
  Let(OnChange(c.state, control, next), LAMBDA s :
    [state |-> s,
     sliders |-> [c.sliders EXCEPT ![control] = Shown(next)],
     seen |-> Append(c.seen, s)])

\* controls.forEach((control) => control.setValue(control.getInitial(next)))
\* where next is the state object itself
RECURSIVE forEachControl(_, _)
forEachControl(c, controls) ==
  IF controls = <<>> THEN c
  ELSE forEachControl(setValue(c, Head(controls), getInitial(c.state, Head(controls))),
                      Tail(controls))

sync(state, shown) ==
  forEachControl([state |-> state, sliders |-> shown, seen |-> <<>>], PanelControls)

\* variant: the controls are refreshed between the two assignments
resetHalfway(state, next, shown) ==
  Let(sync([state EXCEPT !.position = next.position], shown), LAMBDA c :
    Let([c.state EXCEPT !.rotation = next.rotation], LAMBDA s :
      [c EXCEPT !.state = s, !.seen = Append(@, s)]))

\* state.position = {...next.position}; state.rotation = {...next.rotation};
\* controls.forEach(...); onChange(state)
reset(state, next, shown) ==
  Let(sync([state EXCEPT !.position = next.position, !.rotation = next.rotation],
           shown),
      LAMBDA c : [c EXCEPT !.seen = Append(@, c.state)])

\* leftBindings.sync(leftState); rightBindings.sync(rightState)
syncControls(states, shown) == [e \in Eyes |-> sync(states[e], shown[e])]

\* ---------------------------------------------------------------------
\* Visibility / parenting
\* ---------------------------------------------------------------------
\* variant: no callback is registered
enablePerEyeVisibilityIdle(c) == c

\* variant: a callback is registered whether or not one is registered already
enablePerEyeVisibilityAgain(c) ==
  LET o == NewObserver(c.observers)
  IN  [c EXCEPT !.observers = @ \cup {o}, !.beforeCameraObserver = o]

enablePerEyeVisibility(c) ==
  IF c.beforeCameraObserver # NoObserver THEN c
  ELSE LET o == NewObserver(c.observers)
       IN  [c EXCEPT !.observers = @ \cup {o}, !.beforeCameraObserver = o]

\* variant: the handle is forgotten and the callback stays registered
disablePerEyeVisibilityKept(c) ==
  [c EXCEPT !.beforeCameraObserver = NoObserver]

disablePerEyeVisibility(c) ==
  IF c.beforeCameraObserver = NoObserver THEN c
  ELSE [c EXCEPT !.observers = @ \ {c.beforeCameraObserver},
                 !.beforeCameraObserver = NoObserver]

\* below, c holds the objects applyXrOverrides writes; rigs, xrCam, states
\* and showHud are the module-level values it reads

\* variant: the planes keep the masks of the session
exclusiveMasksKept(c) == c

exclusiveMasks(c) ==
  [c EXCEPT !.plane["left"].layerMask = leftMask,
            !.plane["right"].layerMask = rightMask]

\* variant: the planes keep the visibility the last render left them
showPlanesKept(c) ==
  [c EXCEPT !.hudPlane.isVisible = FALSE]

showPlanes(c) ==
  [c EXCEPT !.plane["left"].isVisible = TRUE,
            !.plane["right"].isVisible = TRUE,
            !.hudPlane.isVisible = FALSE]

\* variant: the planes stay with their session parents
desktopParentsKept(c) ==
  [c EXCEPT !.hudPlane.parent = NoCamera]

desktopParents(c) ==
  [c EXCEPT !.plane["left"].parent = camera,
            !.plane["right"].parent = camera,
            !.hudPlane.parent = NoCamera]

\* variant: in a session the planes carry both eye bits
sharedMasksBothEyes(c) ==
  [c EXCEPT !.plane["left"].layerMask = BitOr(BitOr(leftMask, rightMask), commonMask),
            !.plane["right"].layerMask = BitOr(BitOr(leftMask, rightMask), commonMask)]

sharedMasks(c) ==
  [c EXCEPT !.plane["left"].layerMask = commonMask,
            !.plane["right"].layerMask = commonMask]

\* variant: the planes are parented to rig cameras only
sessionParentsRigOnly(c, rigs, xrCam) ==
  IF Len(rigs) >= 2
  THEN [c EXCEPT !.plane["left"].parent = rigs[1],
                 !.plane["right"].parent = rigs[2]]
  ELSE c

sessionParents(c, rigs, xrCam) ==
  IF Len(rigs) >= 2
  THEN [c EXCEPT !.plane["left"].parent = rigs[1],
                 !.plane["right"].parent = rigs[2]]
  ELSE IF xrCam # NoCamera
  THEN [c EXCEPT !.plane["left"].parent = xrCam,
                 !.plane["right"].parent = xrCam]
  ELSE c

placeHud(c, xrCam, showHud) ==
  IF xrCam # NoCamera
  THEN [c EXCEPT !.hudPlane.parent = xrCam,
                 !.hudPlane.position =
                    Vec(FInt(0), FNeg(FDec(<<8>>, 1)), FDec(<<2, 2>>, 1)),
                 !.hudPlane.isVisible = showHud]
  ELSE c

applyBoth(c, states) ==
  [c EXCEPT !.plane["left"] = applyState(@, states["left"]),
            !.plane["right"] = applyState(@, states["right"])]

applyXrOverrides(inXr, c, rigs, xrCam, states, showHud) ==
  IF ~inXr
  THEN applyBoth(desktopParents(disablePerEyeVisibility(showPlanes(exclusiveMasks(c)))),
                 states)
  ELSE applyBoth(placeHud(sessionParents(enablePerEyeVisibility(sharedMasks(c)), rigs, xrCam),
                          xrCam, showHud),
                 states)

\* variant: a flagged camera hides nothing
PerEyeHookShowAll(planes, inXr, eye) ==
  IF ~inXr THEN planes
  ELSE [planes EXCEPT !["left"].isVisible = TRUE, !["right"].isVisible = TRUE]

\* variant: the callback does not look at the session flag
PerEyeHookUnguarded(planes, inXr, eye) ==
  IF eye = "left"
  THEN [planes EXCEPT !["left"].isVisible = TRUE, !["right"].isVisible = FALSE]
  ELSE IF eye = "right"
  THEN [planes EXCEPT !["left"].isVisible = FALSE, !["right"].isVisible = TRUE]
  ELSE [planes EXCEPT !["left"].isVisible = TRUE, !["right"].isVisible = TRUE]

\* the callback enablePerEyeVisibility registers; eye is the flag of the
\* camera about to render
PerEyeHook(planes, inXr, eye) ==
  IF ~inXr THEN planes
  ELSE IF eye = "left"
  THEN [planes EXCEPT !["left"].isVisible = TRUE, !["right"].isVisible = FALSE]
  ELSE IF eye = "right"
  THEN [planes EXCEPT !["left"].isVisible = FALSE, !["right"].isVisible = TRUE]
  ELSE [planes EXCEPT !["left"].isVisible = TRUE, !["right"].isVisible = TRUE]

\* ---------------------------------------------------------------------
\* Controller input: updateJoystickMovement
\* ---------------------------------------------------------------------
speed == FDec(<<2>>, 1)
rotSpeed == FDec(<<1, 5>>, 2)
deadZone == FDec(<<5>>, 2)
pressThreshold == FDec(<<5>>, 1)

\* axes[i] ?? 0, with i counted from 0
AxisOrZero(axes, i) == IF i + 1 <= Len(axes) THEN axes[i + 1] ELSE FInt(0)

getStickAxes(axes) ==
  IF Len(axes) >= 4
  THEN [x |-> AxisOrZero(axes, 2), y |-> AxisOrZero(axes, 3)]
  ELSE [x |-> AxisOrZero(axes, 0), y |-> AxisOrZero(axes, 1)]

isPressedAny(buttons, indices) ==
  \E k \in 1..Len(indices) :
    LET index == indices[k]
    IN  /\ index + 1 <= Len(buttons)
        /\ \/ buttons[index + 1].pressed
           \/ FLess(pressThreshold, buttons[index + 1].value)

\* component names and gamepad button indices that rotate each eye's plane
RotateKeys(eye) ==
  IF eye = "left"
  THEN [dec |-> "x-button", inc |-> "y-button", decIdx |-> <<2, 0>>, incIdx |-> <<3, 1>>]
  ELSE [dec |-> "a-button", inc |-> "b-button", decIdx |-> <<0, 2>>, incIdx |-> <<1, 3>>]

\* if (pressed) { state.rotation.z += delta; didChange = true }, where
\* -= step is += -step
rotateIf(m, pressed, delta) ==
  IF pressed
  THEN [state |-> [m.state EXCEPT !.rotation.z = FAdd(@, delta)], didChange |-> TRUE]
  ELSE m

\* if (|x| > 0.05 || |y| > 0.05) { position.x += x * speed * deltaSeconds; ... }
slideIf(m, ax, deltaSeconds) ==
  IF FLess(deadZone, FAbs(ax.x)) \/ FLess(deadZone, FAbs(ax.y))
  THEN [state |-> [m.state EXCEPT
                     !.position.x = FAdd(@, FMul(FMul(ax.x, speed), deltaSeconds)),
                     !.position.y = FAdd(@, FMul(FMul(FNeg(ax.y), speed), deltaSeconds))],
        didChange |-> TRUE]
  ELSE m

\* the part of updateJoystickMovement that reads one controller; present
\* says whether controllerMap has a source for this eye
moveEye(state, present, source, deltaSeconds, keys) ==
  Let(FMul(rotSpeed, deltaSeconds), LAMBDA step :
  Let(rotateIf(rotateIf([state |-> state, didChange |-> FALSE],
                        present /\ source.hasMotion /\ keys.dec \in source.pressed,
                        FNeg(step)),
               present /\ source.hasMotion /\ keys.inc \in source.pressed,
               step),
      LAMBDA m :
        IF present /\ source.hasGamepad
        THEN rotateIf(rotateIf(slideIf(m, getStickAxes(source.axes), deltaSeconds),
                               isPressedAny(source.buttons, keys.decIdx),
                               FNeg(step)),
                      isPressedAny(source.buttons, keys.incIdx),
                      step)
        ELSE m))

formatState(state) ==
  [h   |-> ToFixed(metersToDiopters(state.position.x), 1),
   v   |-> ToFixed(metersToDiopters(state.position.y), 1),
   rot |-> ToFixed(toDegrees(state.rotation.z), 1)]

\* ---------------------------------------------------------------------
\* The objects of the defaults
\* ---------------------------------------------------------------------
\* cloneState and the spread copies give a state objects of its own
OwnObjects == [position |-> FALSE, rotation |-> FALSE]

\* variant: reset stores next.position and next.rotation themselves
resetObjectsOfTarget(next) == [position |-> TRUE, rotation |-> TRUE]

\* reset stores { ...next.position } and { ...next.rotation }: whether the
\* state then holds the objects of next
resetObjects(next) == OwnObjects

\* the defaults after the states became states: an assignment to a field
\* of an object the default shares is an assignment to the default
WrittenThrough(defaults, shared, states) ==
  [e \in Eyes |->
     [position |-> IF shared[e].position THEN states[e].position
                   ELSE defaults[e].position,
      rotation |-> IF shared[e].rotation THEN states[e].rotation
                   ELSE defaults[e].rotation]]

\* ---------------------------------------------------------------------
\* Initial state: the module has run and the XR helper has been created
\* ---------------------------------------------------------------------
NewPlane(mask) ==
  [layerMask |-> mask, isVisible |-> TRUE, parent |-> camera,
   position |-> Vec(FInt(0), FInt(0), FInt(0)),
   rotation |-> Vec(FInt(0), FInt(0), FInt(0))]

\* variant: every camera is created with all three masks
InitialMaskAll(c) == BitOr(BitOr(leftMask, rightMask), commonMask)

InitialMask(c) ==
  IF c = camera THEN BitOr(BitOr(leftMask, rightMask), commonMask)
  ELSE IF c = leftPreviewCamera THEN BitOr(leftMask, commonMask)
  ELSE IF c = rightPreviewCamera THEN BitOr(rightMask, commonMask)
  ELSE cameraDefaultMask

initialAlpha == FDec(<<5>>, 1)
\* variant: the materials stay opaque after a session
desktopAlphaOpaque == FInt(1)
desktopAlpha == FDec(<<5>>, 1)
sessionAlpha == FInt(1)

InitialSliders(state) ==
  [h   |-> Shown(metersToDiopters(state.position.x)),
   v   |-> Shown(metersToDiopters(state.position.y)),
   rot |-> Shown(toDegrees(state.rotation.z))]

\* the planes, the HUD plane and the scene's callbacks as the module
\* creates them
InitialObjects ==
  [plane |-> [e \in Eyes |->
                applyState(NewPlane(IF e = "left" THEN leftMask ELSE rightMask),
                           cloneState(DefaultOf(e)))],
   hudPlane |-> [layerMask |-> commonMask, isVisible |-> FALSE, parent |-> NoCamera,
                 position |-> Vec(FInt(0), FInt(0), FInt(0))],
   observers |-> {},
   beforeCameraObserver |-> NoObserver]

Init ==
  /\ xrState = "NOT_IN_XR"
  /\ rigCameras = <<>>
  /\ cameraLayerMask = [c \in AllCameras |-> InitialMask(c)]
  /\ xrCamera = NoCamera
  /\ inXrSession = FALSE
  /\ beforeCameraObserver = NoObserver
  /\ xrRigCameras = <<>>
  /\ lastControlSyncMs = 0
  /\ showHudInVR = TRUE
  /\ controllerMap = [h \in Eyes |-> "none"]
  /\ observers = InitialObjects.observers
  /\ imageState = [e \in Eyes |-> cloneState(DefaultOf(e))]
  /\ plane = InitialObjects.plane
  /\ hudPlane = InitialObjects.hudPlane
  /\ hudText = <<>>
  /\ material = [e \in Eyes |-> [alpha |-> initialAlpha]]
  /\ previewEnabled = TRUE
  /\ activeCameras = <<camera, leftPreviewCamera, rightPreviewCamera>>
  /\ status = "WebGL2 ready."
  /\ sliders = [e \in Eyes |-> InitialSliders(cloneState(DefaultOf(e)))]
  /\ connected = {}
  /\ now = StartNow
  /\ frame = <<>>
  /\ lastRender = NoRender
  /\ entryState = NoEntry
  /\ sessionOps = {}
  /\ sessionActive = FALSE
  /\ buttonDisabled = [enter |-> FALSE, exit |-> TRUE]
  /\ request = [enter |-> "none", exit |-> "none"]
  /\ requestState = [enter |-> NoRequest, exit |-> NoRequest]
  /\ support = "pending"
  /\ defaultState = [e \in Eyes |-> DefaultOf(e)]
  /\ alias = [e \in Eyes |-> OwnObjects]

\* ---------------------------------------------------------------------
\* XR session state changes
\* ---------------------------------------------------------------------
\* the order in which the XR experience moves between its states
StateFollows(from, to) ==
  \/ from = "NOT_IN_XR" /\ to = "ENTERING_XR"
  \/ from = "ENTERING_XR" /\ to \in {"IN_XR", "NOT_IN_XR"}
  \/ from = "IN_XR" /\ to = "EXITING_XR"
  \/ from = "EXITING_XR" /\ to = "NOT_IN_XR"

RigLayouts == UNION {[1..n -> EyeFlags] : n \in 0..MaxRigCameras}

\* variant: the rig cameras get the eye bits without the common bits
rigMasksBare(masks, rigs) ==
  [masks EXCEPT ![rigs[1]] = leftMask, ![rigs[2]] = rightMask]

\* the masks of the first two rig cameras
rigMasks(masks, rigs) ==
  [masks EXCEPT ![rigs[1]] = BitOr(leftMask, commonMask),
                ![rigs[2]] = BitOr(rightMask, commonMask)]

\* variant: the session camera gets the common bits only
fallbackMaskCommon(masks, cam) ==
  [masks EXCEPT ![cam] = commonMask]

\* the mask of the session camera when there are fewer than two rig cameras
fallbackMask(masks, cam) ==
  [masks EXCEPT ![cam] = BitOr(BitOr(leftMask, rightMask), commonMask)]

\* rigs are the session camera's rig cameras, cam the session camera
assignCameraMasks(masks, rigs, cam) ==
  IF Len(rigs) >= 2 THEN rigMasks(masks, rigs)
  ELSE IF cam # NoCamera THEN fallbackMask(masks, cam)
  ELSE masks

Objects == [plane |-> plane, hudPlane |-> hudPlane, observers |-> observers,
            beforeCameraObserver |-> beforeCameraObserver]

OnInXr(layout) ==
  \E rigs \in {[i \in 1..Len(layout) |-> RigCamera(i)]} :
  \E c \in {applyXrOverrides(TRUE, Objects, rigs, sessionCamera, imageState, showHudInVR)} :
  \E s \in {syncControls(imageState, sliders)} :
      /\ rigCameras' = layout
      /\ xrRigCameras' = rigs
      /\ cameraLayerMask' = assignCameraMasks(cameraLayerMask, rigs, sessionCamera)
      /\ xrCamera' = sessionCamera
      /\ inXrSession' = TRUE
      /\ previewEnabled' = FALSE
      /\ activeCameras' = <<>>
      /\ material' = [e \in Eyes |-> [material[e] EXCEPT !.alpha = sessionAlpha]]
      /\ observers' = c.observers
      /\ beforeCameraObserver' = c.beforeCameraObserver
      /\ hudPlane' = c.hudPlane
      /\ imageState' = [e \in Eyes |-> s[e].state]
      /\ defaultState' = WrittenThrough(defaultState, alias, imageState')
      /\ plane' = [e \in Eyes |-> applyState(c.plane[e], s[e].state)]
      /\ sliders' = [e \in Eyes |-> s[e].sliders]
      /\ status' = "In XR session."
      /\ entryState' = imageState
      /\ sessionOps' = IF inXrSession THEN {"IN_XR"} ELSE {}

OnNotInXr ==
  \E c \in {applyXrOverrides(FALSE, Objects, <<>>, xrCamera, imageState, showHudInVR)} :
      /\ rigCameras' = <<>>
      /\ inXrSession' = FALSE
      /\ xrRigCameras' = <<>>
      /\ plane' = c.plane
      /\ hudPlane' = c.hudPlane
      /\ observers' = c.observers
      /\ beforeCameraObserver' = c.beforeCameraObserver
      /\ xrCamera' = NoCamera
      /\ previewEnabled' = TRUE
      /\ activeCameras' = <<camera, leftPreviewCamera, rightPreviewCamera>>
      /\ material' = [e \in Eyes |-> [material[e] EXCEPT !.alpha = desktopAlpha]]
      /\ status' = "XR session ended."
      /\ entryState' = NoEntry
      /\ sessionOps' = {}
      /\ UNCHANGED <<cameraLayerMask, imageState, sliders, defaultState>>

\* updateButtons()
updateButtons(active) == [enter |-> active, exit |-> ~active]

\* an enterXRAsync promise is fulfilled once the experience is IN_XR, an
\* exitXRAsync promise once the session has ended
Settled(requests, state) ==
  IF state = "IN_XR"
  THEN [requests EXCEPT !.enter = IF @ = "pending" THEN "fulfilled" ELSE @]
  ELSE IF state = "NOT_IN_XR"
  THEN [requests EXCEPT !.exit = IF @ = "pending" THEN "fulfilled" ELSE @]
  ELSE requests

\* onStateChangedObservable notifies state: the handler of the module, then
\* the handler attachXRButtons added
XrStateNotified(state, layout) ==
  /\ frame = <<>>
  /\ xrState' = state
  /\ lastRender' = NoRender
  /\ sessionActive' = (state = "IN_XR")
  /\ buttonDisabled' = updateButtons(state = "IN_XR")
  /\ request' = Settled(request, state)
  /\ UNCHANGED <<requestState, support>>
  /\ IF state = "IN_XR" THEN OnInXr(layout)
     ELSE IF state = "NOT_IN_XR" THEN OnNotInXr
     ELSE UNCHANGED <<rigCameras, cameraLayerMask, xrCamera, inXrSession,
                      beforeCameraObserver, xrRigCameras, observers, imageState,
                      plane, hudPlane, material, previewEnabled, activeCameras,
                      status, sliders, entryState, sessionOps, defaultState>>
  /\ UNCHANGED <<lastControlSyncMs, showHudInVR, controllerMap, hudText,
                 connected, now, frame, alias>>

\* the experience enters state, in the order of its life cycle
XrStateChanged(state, layout) ==
  /\ StateFollows(xrState, state)
  /\ state = "IN_XR" => support \in {"pending", "supported"}
  /\ XrStateNotified(state, layout)

\* ---------------------------------------------------------------------
\* Desktop controls
\* ---------------------------------------------------------------------
Touched(kind) == IF inXrSession THEN sessionOps \cup {kind} ELSE sessionOps

\* an input event of a range control, whose value is halfSteps * 0.5
SliderInput(eye, control, halfSteps) ==
  /\ frame = <<>>
  /\ \E c \in {setValue([state |-> imageState[eye], sliders |-> sliders[eye],
                      seen |-> <<>>],
                     control, FDiv(FInt(halfSteps), FInt(2)))} :
      /\ sliders' = [sliders EXCEPT ![eye] = c.sliders]
      /\ imageState' = [imageState EXCEPT ![eye] = c.state]
      /\ defaultState' = WrittenThrough(defaultState, alias, imageState')
      /\ plane' = [plane EXCEPT ![eye] = applyState(@, c.state)]
      /\ sessionOps' = Touched("input")
      /\ UNCHANGED <<xrButtonVars, alias, xrState, rigCameras, cameraLayerMask, xrCamera, inXrSession,
                     beforeCameraObserver, xrRigCameras, lastControlSyncMs,
                     showHudInVR, controllerMap, observers, hudPlane, hudText,
                     material, previewEnabled, activeCameras, status, connected,
                     now, frame, lastRender, entryState>>

\* the Reset button of one eye's panel
ResetEye(eye) ==
  /\ frame = <<>>
  /\ \E r \in {reset(imageState[eye], cloneState(DefaultOf(eye)), sliders[eye])} :
      /\ imageState' = [imageState EXCEPT ![eye] = r.state]
      /\ alias' = [alias EXCEPT ![eye] = OwnObjects]
      /\ sliders' = [sliders EXCEPT ![eye] = r.sliders]
      /\ plane' = [plane EXCEPT ![eye] = applyState(@, r.state)]
      /\ sessionOps' = Touched("input")
      /\ UNCHANGED <<xrButtonVars, defaultState, xrState, rigCameras, cameraLayerMask, xrCamera, inXrSession,
                     beforeCameraObserver, xrRigCameras, lastControlSyncMs,
                     showHudInVR, controllerMap, observers, hudPlane, hudText,
                     material, previewEnabled, activeCameras, status, connected,
                     now, frame, lastRender, entryState>>

\* the Reset Both button
ResetBoth ==
  /\ frame = <<>>
  /\ \E r \in {[e \in Eyes |-> reset(imageState[e], DefaultOf(e), sliders[e])]} :
      /\ imageState' = [e \in Eyes |-> r[e].state]
      /\ alias' = [e \in Eyes |-> resetObjects(DefaultOf(e))]
      /\ defaultState' = WrittenThrough(defaultState, alias', imageState')
      /\ sliders' = [e \in Eyes |-> r[e].sliders]
      /\ plane' = [e \in Eyes |-> applyState(plane[e], r[e].state)]
      /\ sessionOps' = Touched("input")
      /\ UNCHANGED <<xrButtonVars, xrState, rigCameras, cameraLayerMask, xrCamera, inXrSession,
                     beforeCameraObserver, xrRigCameras, lastControlSyncMs,
                     showHudInVR, controllerMap, observers, hudPlane, hudText,
                     material, previewEnabled, activeCameras, status, connected,
                     now, frame, lastRender, entryState>>

resetHeadLockedPlanes(states) ==
  [left  |-> [states["left"] EXCEPT
                !.position = Vec(defaultLeft.position.x, defaultLeft.position.y, defaultLeft.position.z),
                !.rotation = Vec(defaultLeft.rotation.x, defaultLeft.rotation.y, defaultLeft.rotation.z)],
   right |-> [states["right"] EXCEPT
                !.position = Vec(defaultRight.position.x, defaultRight.position.y, defaultRight.position.z),
                !.rotation = Vec(defaultRight.rotation.x, defaultRight.rotation.y, defaultRight.rotation.z)]]

\* variant: the recenter handler acts in every state
RecenterActsAlways(state) == TRUE

\* whether the recenter handler acts
RecenterActs(state) == state = "IN_XR"

\* the Recenter in XR button
Recenter ==
  /\ frame = <<>>
  /\ IF RecenterActs(xrState)
     THEN \E s \in {syncControls(resetHeadLockedPlanes(imageState), sliders)} :
              /\ imageState' = [e \in Eyes |-> s[e].state]
              /\ alias' = [e \in Eyes |-> OwnObjects]
              /\ plane' = [e \in Eyes |-> applyState(plane[e], s[e].state)]
              /\ sliders' = [e \in Eyes |-> s[e].sliders]
              /\ sessionOps' = Touched("recenter")
     ELSE UNCHANGED <<imageState, plane, sliders, sessionOps, alias>>
  /\ UNCHANGED defaultState
  /\ UNCHANGED <<xrButtonVars, xrState, rigCameras, cameraLayerMask, xrCamera, inXrSession,
                 beforeCameraObserver, xrRigCameras, lastControlSyncMs,
                 showHudInVR, controllerMap, observers, hudPlane, hudText,
                 material, previewEnabled, activeCameras, status, connected,
                 now, frame, lastRender, entryState>>

\* the Show values in VR toggle
HudVisibilityChange(visible) ==
  /\ frame = <<>>
  /\ visible # showHudInVR
  /\ showHudInVR' = visible
  /\ hudPlane' = IF inXrSession THEN [hudPlane EXCEPT !.isVisible = visible] ELSE hudPlane
  /\ UNCHANGED <<xrButtonVars, defaultState, alias, xrState, rigCameras, cameraLayerMask, xrCamera, inXrSession,
                 beforeCameraObserver, xrRigCameras, lastControlSyncMs,
                 controllerMap, observers, imageState, plane, hudText, material,
                 previewEnabled, activeCameras, status, sliders, connected, now,
                 frame, lastRender, entryState, sessionOps>>

\* ---------------------------------------------------------------------
\* Controllers
\* ---------------------------------------------------------------------
ControllerAdded(c) ==
  /\ frame = <<>>
  /\ xrState = "IN_XR"
  /\ c \notin connected
  /\ connected' = connected \cup {c}
  /\ controllerMap' = IF Handedness(c) \in Eyes
                      THEN [controllerMap EXCEPT ![Handedness(c)] = c]
                      ELSE controllerMap
  /\ UNCHANGED <<xrButtonVars, defaultState, alias, xrState, rigCameras, cameraLayerMask, xrCamera, inXrSession,
                 beforeCameraObserver, xrRigCameras, lastControlSyncMs,
                 showHudInVR, observers, imageState, plane, hudPlane, hudText,
                 material, previewEnabled, activeCameras, status, sliders, now,
                 frame, lastRender, entryState, sessionOps>>

ControllerRemoved(c) ==
  /\ frame = <<>>
  /\ c \in connected
  /\ connected' = connected \ {c}
  /\ controllerMap' = IF Handedness(c) \in Eyes
                      THEN [controllerMap EXCEPT ![Handedness(c)] = "none"]
                      ELSE controllerMap
  /\ UNCHANGED <<xrButtonVars, defaultState, alias, xrState, rigCameras, cameraLayerMask, xrCamera, inXrSession,
                 beforeCameraObserver, xrRigCameras, lastControlSyncMs,
                 showHudInVR, observers, imageState, plane, hudPlane, hudText,
                 material, previewEnabled, activeCameras, status, sliders, now,
                 frame, lastRender, entryState, sessionOps>>

\* ---------------------------------------------------------------------
\* Enter VR / Exit VR buttons: attachXRButtons
\* ---------------------------------------------------------------------
\* everything but the status line and the state of the buttons
sceneVars ==
  <<xrState, rigCameras, cameraLayerMask, xrCamera, inXrSession,
    beforeCameraObserver, xrRigCameras, lastControlSyncMs, showHudInVR,
    controllerMap, observers, imageState, plane, hudPlane, hudText, material,
    previewEnabled, activeCameras, sliders, connected, now, frame, lastRender,
    entryState, sessionOps, defaultState, alias>>

\* the session flag, the planes' masks, parents and visibility, the opacity,
\* the per-eye callback and the Eye Plane States
SessionFacts ==
  [inXrSession |-> inXrSession,
   planes |-> [e \in Eyes |-> [layerMask |-> plane[e].layerMask,
                               parent |-> plane[e].parent,
                               isVisible |-> plane[e].isVisible]],
   alpha |-> [e \in Eyes |-> material[e].alpha],
   observers |-> observers,
   beforeCameraObserver |-> beforeCameraObserver,
   imageState |-> imageState]

Snapshot == [xrState |-> xrState, facts |-> SessionFacts]

\* variant: a failed enter request reports the end of a session
enterFailedTextEnded == "XR session ended."

enterFailedText == "Failed to enter XR."
exitFailedText == "Failed to exit XR."

\* click on Enter VR: xrHelper.baseExperience.enterXRAsync(...); one request
\* of a kind is in flight at a time
EnterClick ==
  /\ frame = <<>>
  /\ ~buttonDisabled.enter
  /\ request.enter = "none"
  /\ request' = [request EXCEPT !.enter = "pending"]
  /\ requestState' = [requestState EXCEPT !.enter = Snapshot]
  /\ UNCHANGED <<sceneVars, status, sessionActive, buttonDisabled, support>>

\* .then(() => { sessionActive = true; updateButtons() })
EnterFulfilled ==
  /\ frame = <<>>
  /\ request.enter = "fulfilled"
  /\ request' = [request EXCEPT !.enter = "none"]
  /\ sessionActive' = TRUE
  /\ buttonDisabled' = updateButtons(TRUE)
  /\ UNCHANGED <<sceneVars, status, requestState, support>>

\* .catch(() => { status.textContent = 'Failed to enter XR.' }); the
\* experience is back in NOT_IN_XR when it rejects the request
EnterRejected ==
  /\ frame = <<>>
  /\ request.enter = "pending"
  /\ xrState = "NOT_IN_XR"
  /\ request' = [request EXCEPT !.enter = "none"]
  /\ status' = enterFailedText
  /\ UNCHANGED <<sceneVars, sessionActive, buttonDisabled, requestState, support>>

\* click on Exit VR: xrHelper.baseExperience.exitXRAsync(), which has
\* nothing to do unless the experience is IN_XR
ExitClick ==
  /\ frame = <<>>
  /\ ~buttonDisabled.exit
  /\ request.exit = "none"
  /\ request' = [request EXCEPT !.exit = IF xrState = "IN_XR" THEN "pending"
                                         ELSE "fulfilled"]
  /\ requestState' = [requestState EXCEPT !.exit = Snapshot]
  /\ UNCHANGED <<sceneVars, status, sessionActive, buttonDisabled, support>>

\* .then(() => { sessionActive = false; updateButtons() })
ExitFulfilled ==
  /\ frame = <<>>
  /\ request.exit = "fulfilled"
  /\ request' = [request EXCEPT !.exit = "none"]
  /\ sessionActive' = FALSE
  /\ buttonDisabled' = updateButtons(FALSE)
  /\ UNCHANGED <<sceneVars, status, requestState, support>>

\* .catch(() => { status.textContent = 'Failed to exit XR.' }); the session
\* has not ended when the experience rejects the request
ExitRejected ==
  /\ frame = <<>>
  /\ request.exit = "pending"
  /\ xrState \in {"IN_XR", "EXITING_XR"}
  /\ request' = [request EXCEPT !.exit = "none"]
  /\ status' = exitFailedText
  /\ UNCHANGED <<sceneVars, sessionActive, buttonDisabled, requestState, support>>

unsupportedText == "XR not supported on this device."

\* isSessionSupportedAsync('immersive-vr') is fulfilled:
\* .then((supported) => { enterButton.disabled = !supported; ... })
SupportFulfilled(supported) ==
  /\ frame = <<>>
  /\ support = "pending"
  /\ supported \/ xrState \in {"NOT_IN_XR", "ENTERING_XR"}
  /\ support' = IF supported THEN "supported" ELSE "unsupported"
  /\ buttonDisabled' = [buttonDisabled EXCEPT !.enter = ~supported]
  /\ status' = IF supported THEN status ELSE unsupportedText
  /\ UNCHANGED <<sceneVars, sessionActive, request, requestState>>

\* isSessionSupportedAsync is rejected: .catch(() => { enterButton.disabled = true })
SupportRejected ==
  /\ frame = <<>>
  /\ support = "pending"
  /\ xrState \in {"NOT_IN_XR", "ENTERING_XR"}
  /\ support' = "failed"
  /\ buttonDisabled' = [buttonDisabled EXCEPT !.enter = TRUE]
  /\ UNCHANGED <<sceneVars, status, sessionActive, request, requestState>>

\* ---------------------------------------------------------------------
\* Render loop
\* ---------------------------------------------------------------------
\* variant: the joystick path refreshes the controls after every change
SyncDueAlways(t, last) == TRUE

\* whether the joystick path refreshes the controls at clock value t
SyncDue(t, last) == t - last > 100

\* updateJoystickMovement at clock value t; inputs[h] is what the
\* controller of hand h reports
updateJoystickMovement(deltaTime, inputs, t) ==
  IF ~inXrSession
  THEN [imageState |-> imageState, plane |-> plane, sliders |-> sliders,
        lastControlSyncMs |-> lastControlSyncMs, didChange |-> FALSE]
  ELSE Let([e \in Eyes |->
              moveEye(imageState[e], controllerMap[e] # "none", inputs[e],
                      FDiv(FInt(deltaTime), FInt(1000)), RotateKeys(e))],
           LAMBDA m :
             IF (m["left"].didChange \/ m["right"].didChange)
                /\ SyncDue(t, lastControlSyncMs)
             THEN Let(syncControls([e \in Eyes |-> m[e].state], sliders), LAMBDA s :
                    [imageState |-> [e \in Eyes |-> s[e].state],
                     plane |-> [e \in Eyes |-> applyState(plane[e], s[e].state)],
                     sliders |-> [e \in Eyes |-> s[e].sliders],
                     lastControlSyncMs |-> t, didChange |-> TRUE])
             ELSE [imageState |-> [e \in Eyes |-> m[e].state],
                   plane |-> [e \in Eyes |->
                                IF m[e].didChange THEN applyState(plane[e], m[e].state)
                                ELSE plane[e]],
                   sliders |-> sliders,
                   lastControlSyncMs |-> lastControlSyncMs,
                   didChange |-> m["left"].didChange \/ m["right"].didChange])

\* variant: the HUD text is recomputed before the movement is applied
updateXrHudFirst(text, states) ==
  IF ~inXrSession \/ ~hudPlane.isVisible THEN text
  ELSE <<formatState(imageState["left"]), formatState(imageState["right"])>>

updateXrHud(text, states) ==
  IF ~inXrSession \/ ~hudPlane.isVisible THEN text
  ELSE <<formatState(states["left"]), formatState(states["right"])>>

\* the cameras scene.render() renders, in order
RenderList ==
  IF activeCameras # <<>> THEN activeCameras
  ELSE <<sessionCamera>> \o [i \in 1..Len(rigCameras) |-> RigCamera(i)]

\* what the controller of a hand may report, out of samples(hand)
InputsOf(hand, samples) ==
  IF inXrSession /\ controllerMap[hand] # "none" THEN samples[hand]
  ELSE {InputIdle}

\* one call of the engine.runRenderLoop callback, up to scene.render()
RenderLoop(deltaTime, inputs) ==
  /\ frame = <<>>
  /\ now + deltaTime <= StartNow + MaxNow
  /\ \E j \in {updateJoystickMovement(deltaTime, inputs, now + deltaTime)} :
      /\ now' = now + deltaTime
      /\ imageState' = j.imageState
      /\ defaultState' = WrittenThrough(defaultState, alias, imageState')
      /\ plane' = j.plane
      /\ sliders' = j.sliders
      /\ lastControlSyncMs' = j.lastControlSyncMs
      /\ sessionOps' = IF j.didChange THEN Touched("input") ELSE sessionOps
      /\ hudText' = updateXrHud(hudText, j.imageState)
      /\ frame' = RenderList
      /\ UNCHANGED <<xrButtonVars, alias, xrState, rigCameras, cameraLayerMask, xrCamera, inXrSession,
                     beforeCameraObserver, xrRigCameras, showHudInVR,
                     controllerMap, observers, hudPlane, material,
                     previewEnabled, activeCameras, status, connected,
                     lastRender, entryState>>

CameraEye(c) ==
  IF c[1] = "rig" /\ c[2] <= Len(rigCameras) THEN rigCameras[c[2]] ELSE "none"

\* a mesh is drawn for a camera when it is visible and its layer mask
\* meets the camera's
Drawn(c, planes, hud) ==
  IF c = sessionCamera THEN {}
  ELSE {m \in {"leftPlane", "rightPlane", "xrHud"} :
          LET mesh == IF m = "leftPlane" THEN planes["left"]
                      ELSE IF m = "rightPlane" THEN planes["right"] ELSE hud
          IN  mesh.isVisible /\ BitAnd(mesh.layerMask, cameraLayerMask[c]) # 0}

\* scene.render() renders its next camera: the scene notifies
\* onBeforeCameraRenderObservable, then draws the meshes
CameraRender ==
  /\ frame # <<>>
  /\ \E planes \in {IF observers # {}
                    THEN PerEyeHook(plane, inXrSession, CameraEye(Head(frame)))
                    ELSE plane} :
      /\ frame' = Tail(frame)
      /\ plane' = planes
      /\ lastRender' = [camera |-> Head(frame), hooked |-> observers # {},
                        meshes |-> Drawn(Head(frame), planes, hudPlane)]
      /\ UNCHANGED <<xrButtonVars, defaultState, alias, xrState, rigCameras, cameraLayerMask, xrCamera, inXrSession,
                     beforeCameraObserver, xrRigCameras, lastControlSyncMs,
                     showHudInVR, controllerMap, observers, imageState, hudPlane,
                     hudText, material, previewEnabled, activeCameras, status,
                     sliders, connected, now, entryState, sessionOps>>

XrStates == {"NOT_IN_XR", "ENTERING_XR", "IN_XR", "EXITING_XR"}

\* the range controls the sampled slider events move
SliderTargets == {<<"left", "rot">>, <<"right", "h">>}
\* the rig cameras of the sessions in which the controls are exercised
ControlLayouts == {<<>>, <<"left", "right">>}

StateChange(layouts) ==
  \E state \in XrStates, layout \in layouts : XrStateChanged(state, layout)

Slide(targets) ==
  \E t \in targets, halfSteps \in SliderHalfSteps : SliderInput(t[1], t[2], halfSteps)

\* a frame whose engine.getDeltaTime() is one of deltaTimes, with controller
\* reports out of samples, while the clock stays within until
Poll(deltaTimes, samples, until) ==
  \E deltaTime \in deltaTimes :
    /\ now + deltaTime <= StartNow + until
    /\ \E inputs \in [left : InputsOf("left", samples),
                      right : InputsOf("right", samples)] :
         RenderLoop(deltaTime, inputs)

Tick == Poll(DeltaTimes, [h \in Eyes |-> ControllerInputs(h)], MaxNow)

\* the Enter VR and Exit VR buttons and the promises of their requests
XrButtons ==
  \/ EnterClick
  \/ EnterFulfilled
  \/ EnterRejected
  \/ ExitClick
  \/ ExitFulfilled
  \/ ExitRejected
  \/ \E supported \in BOOLEAN : SupportFulfilled(supported)
  \/ SupportRejected

\* every operation of the program
Next ==
  \/ StateChange(RigLayouts)
  \/ Slide(Eyes \X {"h", "v", "rot"})
  \/ \E eye \in Eyes : ResetEye(eye)
  \/ ResetBoth
  \/ Recenter
  \/ \E visible \in BOOLEAN : HudVisibilityChange(visible)
  \/ \E c \in Controllers : ControllerAdded(c)
  \/ \E c \in Controllers : ControllerRemoved(c)
  \/ Tick
  \/ CameraRender
  \/ XrButtons

Spec == Init /\ [][Next]_vars

\* sessions, the HUD toggle and rendering, with the controls at rest
NextSession ==
  \/ StateChange(RigLayouts)
  \/ \E visible \in BOOLEAN : HudVisibilityChange(visible)
  \/ Tick
  \/ CameraRender

SpecSession == Init /\ [][NextSession]_vars

\* sessions and the desktop controls, without rendering
NextControls ==
  \/ StateChange(ControlLayouts)
  \/ Slide(SliderTargets)
  \/ \E eye \in Eyes : ResetEye(eye)
  \/ ResetBoth
  \/ Recenter

SpecControls == Init /\ [][NextControls]_vars

\* the controllers and the rig cameras of the sessions in which the
\* joystick path is exercised
InputControllers == {"ctlLeft", "ctlNone"}
InputLayouts == {<<"left", "right">>}
\* the controller reports with which the throttle is exercised
ThrottleInputs(hand) == {InputIdle, InputStick}
ThrottleControllers == {"ctlLeft"}
ThrottleLayouts == {<<>>}

\* sessions, controllers, the joystick path and rendering
NextInput ==
  \/ StateChange(InputLayouts)
  \/ \E c \in InputControllers : ControllerAdded(c)
  \/ \E c \in InputControllers : ControllerRemoved(c)
  \/ Poll(DeltaTimes, [h \in Eyes |-> ControllerInputs(h)], InputMaxNow)
  \/ CameraRender

SpecInput == Init /\ [][NextInput]_vars

\* sessions, one controller, stick input and rendering up to MaxNow
NextThrottle ==
  \/ StateChange(ThrottleLayouts)
  \/ \E c \in ThrottleControllers : ControllerAdded(c)
  \/ \E c \in ThrottleControllers : ControllerRemoved(c)
  \/ Poll(DeltaTimes, [h \in Eyes |-> ThrottleInputs(h)], MaxNow)
  \/ CameraRender

SpecThrottle == Init /\ [][NextThrottle]_vars

\* no controller reports input
Resting(hand) == {InputIdle}

\* a frame in which no controller reports input: updateJoystickMovement
\* changes nothing and does not read the clock, so the clock is not
\* followed through such a frame
IdleFrame == Poll({0}, [h \in Eyes |-> Resting(h)], MaxNow)

\* SpecThrottle with frames that go on when the input has stopped:
\* engine.runRenderLoop calls the callback for every animation frame, and
\* scene.render() renders all its cameras
NextStop ==
  \/ NextThrottle
  \/ IdleFrame

\* weak fairness of IdleFrame, written with the condition under which it is
\* enabled: a frame can start whenever scene.render() is not under way
IdleFrameFair ==
  []<>(frame # <<>>) \/ []<><<IdleFrame>>_vars

SpecStop ==
  Init /\ [][NextStop]_vars /\ IdleFrameFair /\ WF_vars(CameraRender)

\* sessions and every controller, with the sticks at rest
NextControllers ==
  \/ StateChange(ControlLayouts)
  \/ \E c \in Controllers : ControllerAdded(c)
  \/ \E c \in Controllers : ControllerRemoved(c)

SpecControllers == Init /\ [][NextControllers]_vars

\* state notifications in any order, and rendering
NextEvents ==
  \/ \E state \in XrStates, layout \in ControlLayouts : XrStateNotified(state, layout)
  \/ Tick
  \/ CameraRender

SpecEvents == Init /\ [][NextEvents]_vars

\* sessions requested with the buttons, and the HUD toggle
NextButtons ==
  \/ StateChange(ControlLayouts)
  \/ \E visible \in BOOLEAN : HudVisibilityChange(visible)
  \/ XrButtons

SpecButtons == Init /\ [][NextButtons]_vars

\* ---------------------------------------------------------------------
\* Properties
\* ---------------------------------------------------------------------
\* C1: from the IN_XR handler on, when the session camera has at least two
\* rig cameras, the first has layer mask LEFT|COMMON = 0x1FFFFFFF and the
\* second RIGHT|COMMON = 0x2FFFFFFF
C1_RigCameraMasks ==
  (inXrSession /\ Len(xrRigCameras) >= 2) =>
    /\ cameraLayerMask[xrRigCameras[1]] = 536870911
    /\ cameraLayerMask[xrRigCameras[2]] = 805306367

C1_Witness ==
  /\ xrState = "IN_XR"
  /\ inXrSession
  /\ Len(xrRigCameras) >= 2
  /\ cameraLayerMask[RigCamera(1)] = 536870911

\* C2: after the before-camera-render callback has run for a camera during
\* a session, a left camera leaves the left plane visible and the right
\* hidden, a right camera the reverse, and a camera with neither flag
\* leaves both visible
C2_HookVisibility ==
  (inXrSession /\ lastRender.hooked) =>
    LET eye == CameraEye(lastRender.camera)
    IN  /\ eye = "left" => (leftPlane.isVisible /\ ~rightPlane.isVisible)
        /\ eye = "right" => (~leftPlane.isVisible /\ rightPlane.isVisible)
        /\ eye = "none" => (leftPlane.isVisible /\ rightPlane.isVisible)

C2_Witness ==
  /\ inXrSession
  /\ lastRender.hooked
  /\ CameraEye(lastRender.camera) = "left"
  /\ leftPlane.isVisible
  /\ ~rightPlane.isVisible

\* C3: in a session whose two rig cameras are one left and one right, the
\* left camera draws the left plane and not the right, the right camera
\* draws the right plane and not the left, while both planes carry the
\* COMMON mask
C3_EyeSeparation ==
  (/\ inXrSession
   /\ Len(rigCameras) = 2
   /\ {rigCameras[i] : i \in 1..Len(rigCameras)} = {"left", "right"}
   /\ lastRender.camera[1] = "rig") =>
    LET eye == CameraEye(lastRender.camera)
    IN  /\ leftPlane.layerMask = commonMask
        /\ rightPlane.layerMask = commonMask
        /\ eye = "left" => ("leftPlane" \in lastRender.meshes
                            /\ "rightPlane" \notin lastRender.meshes)
        /\ eye = "right" => ("rightPlane" \in lastRender.meshes
                             /\ "leftPlane" \notin lastRender.meshes)

C3_Witness ==
  /\ inXrSession
  /\ rigCameras = <<"left", "right">>
  /\ lastRender.camera = RigCamera(2)
  /\ lastRender.meshes \cap {"leftPlane", "rightPlane"} = {"rightPlane"}

\* C5: whenever no session is active, the left plane's layer mask is LEFT
\* and the right plane's is RIGHT
C5_DesktopPlaneMasks ==
  ~inXrSession =>
    /\ leftPlane.layerMask = 268435456
    /\ rightPlane.layerMask = 536870912

C5_Witness ==
  /\ ~inXrSession
  /\ status = "XR session ended."
  /\ cameraLayerMask[sessionCamera] = 1073741823
  /\ leftPlane.layerMask = leftMask
  /\ rightPlane.layerMask = rightMask

\* C6: once the NOT_IN_XR handler has run, the per-eye callback is no
\* longer registered with the scene and the stored handle is null
C6_ObserverRemoved ==
  ~inXrSession => (observers = {} /\ beforeCameraObserver = NoObserver)

C6_Witness ==
  /\ xrState = "NOT_IN_XR"
  /\ status = "XR session ended."
  /\ cameraLayerMask[RigCamera(1)] = 536870911
  /\ observers = {}
  /\ beforeCameraObserver = NoObserver

C9_MaterialAlpha ==
  /\ inXrSession => (leftMaterial.alpha = FInt(1) /\ rightMaterial.alpha = FInt(1))
  /\ ~inXrSession => (/\ leftMaterial.alpha = FDiv(FInt(1), FInt(2))
                      /\ rightMaterial.alpha = FDiv(FInt(1), FInt(2)))

C9_Witness ==
  /\ ~inXrSession
  /\ status = "XR session ended."
  /\ hudPlane.position # Vec(FInt(0), FInt(0), FInt(0))
  /\ leftMaterial.alpha = FDiv(FInt(1), FInt(2))

\* C10: with no session both planes are parented to the desktop camera;
\* in a session with at least two rig cameras the left plane is parented
\* to the first rig camera and the right plane to the second
C10_PlaneParents ==
  /\ ~inXrSession => (leftPlane.parent = camera /\ rightPlane.parent = camera)
  /\ (inXrSession /\ Len(xrRigCameras) >= 2) =>
       (leftPlane.parent = xrRigCameras[1] /\ rightPlane.parent = xrRigCameras[2])

C10_Witness ==
  /\ inXrSession
  /\ Len(xrRigCameras) >= 2
  /\ leftPlane.parent = RigCamera(1)
  /\ rightPlane.parent = RigCamera(2)

\* C4: a session in which neither recenter nor any other input acted ends,
\* at the NOT_IN_XR handler, with the Eye Plane State it was entered with
C4_RoundTrip ==
  [][(/\ xrState = "EXITING_XR"
      /\ xrState' = "NOT_IN_XR"
      /\ sessionOps = {}) => imageState' = entryState]_vars

\* C7: the recenter handler puts both Eye Plane States and both planes at
\* position (0, 0, 2) and rotation (0, 0, 0) when the XR state is IN_XR,
\* and leaves them as they are in every other state
C7_RecenterGuard ==
  [][Recenter =>
       IF xrState = "IN_XR"
       THEN \A e \in Eyes :
              /\ imageState'[e].position = Vec(FInt(0), FInt(0), FInt(2))
              /\ imageState'[e].rotation = Vec(FInt(0), FInt(0), FInt(0))
              /\ plane'[e].position = Vec(FInt(0), FInt(0), FInt(2))
              /\ plane'[e].rotation = Vec(FInt(0), FInt(0), FInt(0))
       ELSE imageState' = imageState /\ plane' = plane]_vars

C7_Witness ==
  /\ xrState = "IN_XR"
  /\ sessionOps = {"recenter"}
  /\ entryState["left"] # defaultLeft
  /\ leftState = defaultLeft
  /\ leftPlane.rotation = defaultLeft.rotation

\* C11: a session entered with fewer than two rig cameras (none included)
\* runs its IN_XR handler to the end (the preview is off and the per-eye
\* callback is registered), both planes are parented to
\* the one session camera, and that camera's layer mask meets both planes'
\* masks; when the per-eye callback has run for it both planes are visible
C11_FallbackParents ==
  (inXrSession /\ Len(xrRigCameras) < 2) =>
    /\ beforeCameraObserver # NoObserver
    /\ previewEnabled = FALSE
    /\ xrCamera = sessionCamera
    /\ \A e \in Eyes :
         /\ plane[e].parent = xrCamera
         /\ BitAnd(plane[e].layerMask, cameraLayerMask[xrCamera]) # 0
         /\ (lastRender.camera = xrCamera /\ lastRender.hooked) => plane[e].isVisible

C11_Witness ==
  /\ inXrSession
  /\ Len(xrRigCameras) = 0
  /\ lastRender.camera = sessionCamera
  /\ lastRender.hooked
  /\ leftPlane.parent = sessionCamera
  /\ rightPlane.parent = sessionCamera
  /\ leftPlane.isVisible /\ rightPlane.isVisible

\* C12: the rejection of an enter or exit request writes 'Failed to enter
\* XR.' or 'Failed to exit XR.' to the status line and changes neither the
\* XR state, the session flag, the planes' masks, parents and visibility,
\* the opacity, the per-eye callback nor the Eye Plane States
C12_RejectedRequest ==
  [][/\ EnterRejected =>
          /\ status' = "Failed to enter XR."
          /\ xrState' = xrState
          /\ SessionFacts' = SessionFacts
     /\ ExitRejected =>
          /\ status' = "Failed to exit XR."
          /\ xrState' = xrState
          /\ SessionFacts' = SessionFacts]_vars

C12_Witness ==
  /\ status = "Failed to exit XR."
  /\ xrState = "EXITING_XR"
  /\ inXrSession
  /\ request.exit = "none"
  /\ requestState.exit.facts = SessionFacts

\* C13: a reset assigns position and rotation before any callback runs:
\* every state the panel's onChange callback is handed during the reset,
\* one per control and one at the end, already has the position and the
\* rotation of the reset target, and after the reset the Eye Plane State
\* and its plane have the target's position and rotation
C13_ResetAtomic ==
  [][\A e \in Eyes :
       (ResetEye(e) \/ ResetBoth) =>
         LET r == reset(imageState[e], DefaultOf(e), sliders[e])
         IN  /\ Len(r.seen) = Len(PanelControls) + 1
             /\ \A i \in 1..Len(r.seen) :
                  /\ r.seen[i].position = DefaultOf(e).position
                  /\ r.seen[i].rotation = DefaultOf(e).rotation
             /\ imageState'[e].position = DefaultOf(e).position
             /\ imageState'[e].rotation = DefaultOf(e).rotation
             /\ plane'[e].position = DefaultOf(e).position
             /\ plane'[e].rotation = DefaultOf(e).rotation]_vars

C13_Witness ==
  /\ inXrSession
  /\ sessionOps = {"input"}
  /\ entryState["left"].rotation # defaultLeft.rotation
  /\ leftState = defaultLeft
  /\ leftPlane.position = defaultLeft.position
  /\ leftPlane.rotation = defaultLeft.rotation
  /\ sliders["left"]["rot"].value = FInt(0)

\* C14: the desktop camera's mask LEFT | RIGHT | COMMON is the 32-bit
\* integer 0x3FFFFFFF; it has a bit in common with LEFT, with RIGHT and
\* with COMMON, and LEFT and RIGHT have no bit in common
C14_MaskBits ==
  /\ cameraLayerMask[camera] = BitOr(BitOr(leftMask, rightMask), commonMask)
  /\ cameraLayerMask[camera] = 1073741823
  /\ cameraLayerMask[camera] <= 2147483647
  /\ BitAnd(cameraLayerMask[camera], leftMask) # 0
  /\ BitAnd(cameraLayerMask[camera], rightMask) # 0
  /\ BitAnd(cameraLayerMask[camera], commonMask) # 0
  /\ BitAnd(leftMask, rightMask) = 0

C14_Witness ==
  /\ status = "XR session ended."
  /\ lastRender.camera = camera
  /\ leftPlane.layerMask = leftMask
  /\ rightPlane.layerMask = rightMask
  /\ {"leftPlane", "rightPlane"} \subseteq lastRender.meshes

\* C16: on the desktop the left preview camera draws the left plane and not
\* the right, the right preview camera draws the right plane and not the
\* left, and the main desktop camera draws both
C16_DesktopCameras ==
  ~inXrSession =>
    LET planes == lastRender.meshes \cap {"leftPlane", "rightPlane"}
    IN  /\ lastRender.camera = leftPreviewCamera => planes = {"leftPlane"}
        /\ lastRender.camera = rightPreviewCamera => planes = {"rightPlane"}
        /\ lastRender.camera = camera => planes = {"leftPlane", "rightPlane"}
        /\ activeCameras = <<camera, leftPreviewCamera, rightPreviewCamera>>

C16_Witness ==
  /\ ~inXrSession
  /\ lastRender.camera = rightPreviewCamera
  /\ "rightPlane" \in lastRender.meshes
  /\ "leftPlane" \notin lastRender.meshes

\* C15: converting a position the program holds from metres to prism
\* diopters and back gives the same number of metres
C15_MetersRoundTrip ==
  \A e \in Eyes :
    /\ dioptersToMeters(metersToDiopters(imageState[e].position.x))
         = imageState[e].position.x
    /\ dioptersToMeters(metersToDiopters(imageState[e].position.y))
         = imageState[e].position.y

\* C17: between handlers, and so whenever scene.render() renders a camera,
\* each plane's position and rotation equal those of its Eye Plane State
C17_MeshFollowsState ==
  \A e \in Eyes :
    /\ plane[e].position = imageState[e].position
    /\ plane[e].rotation = imageState[e].rotation

C17_Witness ==
  /\ inXrSession
  /\ lastRender.camera = RigCamera(1)
  /\ "leftPlane" \in lastRender.meshes
  /\ sessionOps = {"input"}
  /\ leftState.position.x # defaultLeft.position.x
  /\ leftState.rotation.z # defaultLeft.rotation.z
  /\ leftPlane.position = leftState.position
  /\ leftPlane.rotation = leftState.rotation

\* C18: while no session is active both planes are visible, and the
\* before-camera-render callback, run for a camera with any eye flag,
\* leaves the planes as they are
C18_HookIdleOutsideSession ==
  ~inXrSession =>
    /\ \A eye \in EyeFlags : PerEyeHook(plane, inXrSession, eye) = plane
    /\ leftPlane.isVisible
    /\ rightPlane.isVisible

C18_Witness ==
  /\ ~inXrSession
  /\ status = "XR session ended."
  /\ lastRender.camera = leftPreviewCamera
  /\ ~lastRender.hooked
  /\ PerEyeHook(plane, inXrSession, "left") = plane
  /\ leftPlane.isVisible
  /\ rightPlane.isVisible

\* the masks, parents and visibility of the planes, the opacity and the
\* per-eye callback
PlaneMapping(c, alpha) ==
  [planes |-> [e \in Eyes |-> [layerMask |-> c.plane[e].layerMask,
                               parent |-> c.plane[e].parent,
                               isVisible |-> c.plane[e].isVisible]],
   alpha |-> alpha,
   observers |-> c.observers,
   beforeCameraObserver |-> c.beforeCameraObserver]

\* C19, the mapping: a session entry leaves the plane mapping a program
\* that never was in a session would get from the same rig cameras and Eye
\* Plane States, and a session's end leaves the mapping the module started
\* with
C19_MappingFromScratch ==
  /\ (xrState = "IN_XR" /\ lastRender = NoRender) =>
       PlaneMapping(Objects, [e \in Eyes |-> material[e].alpha])
         = PlaneMapping(applyXrOverrides(TRUE, InitialObjects, xrRigCameras, xrCamera,
                                         imageState, showHudInVR),
                        [e \in Eyes |-> sessionAlpha])
  /\ xrState = "NOT_IN_XR" =>
       /\ PlaneMapping(Objects, [e \in Eyes |-> material[e].alpha])
            = PlaneMapping(InitialObjects, [e \in Eyes |-> initialAlpha])
       /\ ~inXrSession
       /\ xrCamera = NoCamera
       /\ xrRigCameras = <<>>

\* C19 as stated: the mapping is evaluated from scratch at every entry, and
\* nothing a session set is left after it but the Eye Plane States
C19_Original ==
  /\ C19_MappingFromScratch
  /\ xrState = "NOT_IN_XR" =>
       /\ cameraLayerMask = [c \in AllCameras |-> InitialMask(c)]
       /\ hudPlane = InitialObjects.hudPlane
       /\ lastControlSyncMs = 0
       /\ hudText = <<>>

\* C19: the mapping is evaluated from scratch at every entry, while the
\* layer masks a session gave to cameras and the place it gave to the HUD
\* plane are still there after the session
C19_Reentry ==
  /\ []C19_MappingFromScratch
  /\ [][(xrState = "EXITING_XR" /\ xrState' = "NOT_IN_XR") =>
          /\ cameraLayerMask' = cameraLayerMask
          /\ cameraLayerMask' # [c \in AllCameras |-> InitialMask(c)]
          /\ hudPlane'.position = hudPlane.position
          /\ hudPlane'.position # InitialObjects.hudPlane.position
          /\ lastControlSyncMs' = lastControlSyncMs
          /\ hudText' = hudText
          /\ imageState' = imageState]_vars

C19_Witness ==
  /\ xrState = "IN_XR"
  /\ lastRender = NoRender
  /\ Len(xrRigCameras) = 1
  /\ cameraLayerMask[RigCamera(1)] = 536870911
  /\ leftPlane.isVisible /\ rightPlane.isVisible
  /\ leftPlane.parent = sessionCamera

\* C20: a render-loop tick of dt seconds in a session moves an eye's
\* position by (x * 0.2 * dt, -y * 0.2 * dt) when its stick is outside the
\* dead zone and not at all otherwise, and changes its rotation.z by
\* 0.15 * dt one way or the other or not at all, never by more; a tick
\* without a session changes no Eye Plane State
C20_TickDelta ==
  [][now' # now =>
       IF ~inXrSession THEN imageState' = imageState
       ELSE \A e \in Eyes :
              LET deltaSeconds == FDiv(FInt(now' - now), FInt(1000))
                  step == FMul(rotSpeed, deltaSeconds)
                  before == [state |-> imageState[e], didChange |-> FALSE]
              IN  /\ \E source \in InputsOf(e, [h \in Eyes |-> ControllerInputs(h)]) :
                       imageState'[e].position =
                         slideIf(before, getStickAxes(source.axes), deltaSeconds).state.position
                  /\ imageState'[e].rotation.z \in
                       {imageState[e].rotation.z,
                        FAdd(imageState[e].rotation.z, step),
                        FAdd(imageState[e].rotation.z, FNeg(step))}
                  /\ ~FLess(step, FAbs(FSub(imageState'[e].rotation.z,
                                            imageState[e].rotation.z)))]_vars

\* C21: the joystick path calls syncControls only when the clock is more
\* than 100 ms past the value it stored at its previous call, so two such
\* calls are more than 100 ms apart
C21_SyncThrottle ==
  [][lastControlSyncMs' # lastControlSyncMs =>
       /\ lastControlSyncMs' = now'
       /\ lastControlSyncMs' - lastControlSyncMs > 100]_vars

C21_Witness ==
  /\ inXrSession
  /\ now = StartNow + 240
  /\ lastControlSyncMs = StartNow + 240
  /\ FLess(FDec(<<4, 7>>, 3), leftState.position.x)
  /\ sliders["left"]["h"].value = metersToDiopters(leftState.position.x)

\* C22: a tick applies the movement, then recomputes the HUD text, then
\* renders, so at every camera render of a session with the HUD visible the
\* HUD text is the formatting of the current left and right Eye Plane States
C22_HudTextAtRender ==
  (frame # <<>> /\ inXrSession /\ hudPlane.isVisible) =>
    hudText = <<formatState(leftState), formatState(rightState)>>

C22_Witness ==
  /\ frame # <<>>
  /\ inXrSession
  /\ hudPlane.isVisible
  /\ "input" \in sessionOps
  /\ now = StartNow + 60
  /\ leftState.position.x # entryState["left"].position.x
  /\ hudText # <<>>
  /\ hudText[1].h # ToFixed(metersToDiopters(entryState["left"].position.x), 1)

\* C23: no mesh (leftPlane, rightPlane, hudPlane) ever has a layer mask
\* with both the LEFT and the RIGHT bit set
C23_NoMeshBothEyes ==
  \A mask \in {leftPlane.layerMask, rightPlane.layerMask, hudPlane.layerMask} :
    ~(BitAnd(mask, leftMask) # 0 /\ BitAnd(mask, rightMask) # 0)

C23_Witness ==
  /\ inXrSession
  /\ leftPlane.layerMask = commonMask
  /\ rightPlane.layerMask = commonMask
  /\ hudPlane.layerMask = commonMask
  /\ lastRender.camera = RigCamera(2)
  /\ lastRender.meshes = {"rightPlane", "xrHud"}

\* C24: syncControls is a pull-based refresh: it writes the values of the
\* Eye Plane States into the displayed sliders and leaves both Eye Plane
\* States as they are.  The IN_XR handler changes the states through
\* syncControls only
C24_SyncLeavesState ==
  [][(xrState = "ENTERING_XR" /\ xrState' = "IN_XR") =>
       /\ imageState' = imageState
       /\ \A e \in Eyes : sliders'[e] = InitialSliders(imageState[e])]_vars

C26_OneObserver ==
  /\ Cardinality(observers) <= 1
  /\ observers = IF beforeCameraObserver = NoObserver THEN {}
                 ELSE {beforeCameraObserver}

\* IN_XR has been notified during a session
C26_Witness ==
  /\ xrState = "IN_XR"
  /\ "IN_XR" \in sessionOps
  /\ beforeCameraObserver # NoObserver
  /\ lastRender.hooked

\* C27: whenever a session is active (inXrSession is true), Enter VR is
\* disabled and Exit VR is enabled, however the resolution of the
\* session-support query, the resolutions of the enter and exit requests
\* and the XR state notifications interleave
C27_ButtonsFollowSession ==
  inXrSession => (buttonDisabled.enter /\ ~buttonDisabled.exit)

\* C28: after any sequence of controller-added and controller-removed
\* notifications, controllerMap has an entry for a hand, left or right,
\* exactly when some controller of that hand is connected, the entry is a
\* connected controller of that hand, and a controller of no hand is never
\* in the map
C28_MapFollowsControllers ==
  \A h \in Eyes :
    /\ controllerMap[h] # "none" <=> (\E c \in connected : Handedness(c) = h)
    /\ controllerMap[h] # "none" =>
         (controllerMap[h] \in connected /\ Handedness(controllerMap[h]) = h)

\* C29: after any sequence of operations each Eye Plane State has
\* position.z = viewingDistance (2) and rotation.x = rotation.y = 0, and the
\* objects defaultLeft and defaultRight have the values they were created
\* with
C29_DepthAndDefaults ==
  /\ \A e \in Eyes :
       /\ imageState[e].position.z = viewingDistance
       /\ imageState[e].position.z = FInt(2)
       /\ imageState[e].rotation.x = FInt(0)
       /\ imageState[e].rotation.y = FInt(0)
  /\ defaultState["left"] = defaultLeft
  /\ defaultState["right"] = defaultRight
  /\ defaultLeft.position = Vec(FInt(0), FInt(0), FInt(2))
  /\ defaultLeft.rotation = Vec(FInt(0), FInt(0), FInt(0))

\* the right state has been moved with its slider after a Reset Both in a
\* session
C29_Witness ==
  /\ inXrSession
  /\ "input" \in sessionOps
  /\ leftState = defaultLeft
  /\ rightState.position.x = dioptersToMeters(FDec(<<3, 4, 5>>, 1))
  /\ leftState # entryState["left"]
  /\ rightState # entryState["right"]

\* the displayed slider values are those of the stored Eye Plane States
SlidersShowState ==
  \A e \in Eyes : sliders[e] = InitialSliders(imageState[e])

\* C30: when controller input has changed an Eye Plane State during a
\* session and the input then stops, the displayed slider values eventually
\* equal the stored Eye Plane State: every change made by the joystick path
\* is followed by a syncControls at or after it, unless the experience
\* leaves IN_XR first
C30_EventuallyShown ==
  (xrState = "IN_XR" /\ "input" \in sessionOps /\ ~SlidersShowState)
    ~> (SlidersShowState \/ xrState # "IN_XR")

====
